---- MODULE Spec2Model ----
(***************************************************************************)
(* The Blofin public websocket session (BlofinPublicWebsocket): the topic  *)
(* ledger, the handler table, the keepalive, the deferred listen calls and *)
(* their teardowns, and the order book kept by listenOrderBook.            *)
(***************************************************************************)
EXTENDS Integers, Sequences, FiniteSets, TLC

\* ------------------------------------------------------------------ bounds
\* Consumer calls of listenOrderBook / listenOHLCV in one behaviour.
MaxCalls == 2
\* (price, amount) pairs carried by one generated book message, both sides.
MaxPairs == 2
\* Book messages handled in one order book behaviour.
MaxMessages == 2

\* ------------------------------------------------------------ store inputs
\* store.markets once loaded: id is the exchange's instrument id, symbol the
\* consumer's name, precision the amount factor (market.precision.amount).
Markets ==
  << [id |-> "x", symbol |-> "X", precision |-> 1],
     [id |-> "y", symbol |-> "Y", precision |-> 2] >>

\* Symbols a consumer may ask an order book for; "Q" is no market of the store.
ListenSymbols == {"X", "Y", "Q"}
\* Symbols a consumer may ask candles for.
CandleSymbols == {"X"}
\* Intervals a consumer may ask for (keys of INTERVAL).
ListenIntervals == {"1m", "1h"}

\* INTERVAL[opts.interval] of blofin.types: the exchange's name of an interval.
INTERVAL(iv) == IF iv = "1h" THEN "1H" ELSE iv

\* Prices and amounts of the generated book messages (wire numerals).
Prices == {99, 101}
Amounts == {0, 1, 2}
\* ticker.last values carried by ticker frames.
Lasts == {0, 99, 100}

RECURSIVE SeqFilter(_, _)
\* Array.prototype.filter with the predicate given as the set of kept values.
SeqFilter(s, keep) ==
  IF s = <<>> THEN <<>>
  ELSE IF Head(s) \in keep THEN <<Head(s)>> \o SeqFilter(Tail(s), keep)
  ELSE SeqFilter(Tail(s), keep)

Range(s) == {s[i] : i \in DOMAIN s}

\* ------------------------------------------------------------------ topics
Topic(channel, instId) == [channel |-> channel, instId |-> instId]

\* JSON.stringify({ channel, instId })
TopicAsString(t) ==
  "{\"channel\":\"" \o t.channel \o "\",\"instId\":\"" \o t.instId \o "\"}"

\* store.markets: empty until the markets are loaded.
StoreMarkets(isLoaded) == IF isLoaded THEN Markets ELSE <<>>

\* this.store.markets.find((m) => m.symbol === symbol): the index, 0 if none.
FindMarket(isLoaded, symbol) ==
  LET ms == StoreMarkets(isLoaded)
      hits == {i \in DOMAIN ms : ms[i].symbol = symbol}
  IN IF hits = {} THEN 0 ELSE CHOOSE i \in hits : \A j \in hits : i <= j

\* this.store.markets.map((m) => ({ channel, instId: m.id }))
MarketTopics(isLoaded, channel) ==
  LET ms == StoreMarkets(isLoaded)
  IN [i \in DOMAIN ms |-> Topic(channel, ms[i].id)]

\* An object with string keys, in insertion order: a sequence of [key, val].
Keys(obj) == {obj[i].key : i \in DOMAIN obj}

HasKey(obj, k) == k \in Keys(obj)

IndexOfKey(obj, k) == CHOOSE i \in DOMAIN obj : obj[i].key = k

Get(obj, k) == obj[IndexOfKey(obj, k)].val

\* obj[k] = v: an existing key keeps its place, a new key goes last.
Put(obj, k, v) ==
  IF HasKey(obj, k)
  THEN [obj EXCEPT ![IndexOfKey(obj, k)] = [key |-> k, val |-> v]]
  ELSE Append(obj, [key |-> k, val |-> v])

\* delete obj[k]
Delete(obj, k) ==
  SeqFilter(obj, {e \in Range(obj) : e.key # k})

RECURSIVE Flatten(_)
\* flatten(Object.values(obj))
Flatten(obj) ==
  IF obj = <<>> THEN <<>> ELSE Head(obj).val \o Flatten(Tail(obj))

\* ------------------------------------------------------------ order book
\* The total of a level built without one (the snapshot branch's literal).
Undefined == -1

\* multiply(a, b) of utils/safe-math.
multiply(a, b) == a * b

\* orderBook[side].findIndex((b) => b.price === price): 0 when none (JS -1).
FindIndex(levels, price) ==
  LET hits == {i \in DOMAIN levels : levels[i].price = price}
  IN IF hits = {} THEN 0 ELSE CHOOSE i \in hits : \A j \in hits : i <= j

\* levels.splice(index, 1)
Splice(levels, index) ==
  [i \in 1..(Len(levels) - 1) |-> IF i < index THEN levels[i] ELSE levels[i + 1]]

RECURSIVE SnapshotSide(_, _)
\* snapshot[side].reduce(...): entries with amount 0 are left out, the others
\* become { price, amount: multiply(amount, precision) } (wire numerals are
\* written by their parseFloat value).
SnapshotSide(entries, precision) ==
  IF entries = <<>> THEN <<>>
  ELSE LET e == Head(entries)
           rest == SnapshotSide(Tail(entries), precision)
       IN IF e[2] = 0 THEN rest
          ELSE << [price |-> e[1], amount |-> multiply(e[2], precision),
                   total |-> Undefined] >> \o rest

RECURSIVE UpdateSideAddsAmount(_, _, _)
\* UpdateSide with the amount of an existing level added to instead of replaced.
UpdateSideAddsAmount(levels, pairs, precision) ==
  IF pairs = <<>> THEN levels
  ELSE LET price == Head(pairs)[1]
           amount == Head(pairs)[2]
           index == FindIndex(levels, price)
       IN IF amount = 0 /\ index # 0 THEN Splice(levels, index)
          ELSE IF amount # 0
          THEN IF index = 0
               THEN Append(levels, [price |-> price,
                                    amount |-> multiply(amount, precision),
                                    total |-> 0])
               ELSE UpdateSideAddsAmount(
                      [levels EXCEPT ![index].amount =
                         @ + multiply(amount, precision)],
                      Tail(pairs), precision)
          ELSE UpdateSideAddsAmount(levels, Tail(pairs), precision)

RECURSIVE UpdateSide(_, _, _)
\* The body of sides.forEach((side) => { for (const [rPrice, rAmount] of
\* update[side]) {...} }) for one side: the two `return` statements leave the
\* forEach callback, so the pairs after a deletion or an insertion are not read.
UpdateSide(levels, pairs, precision) ==
  IF pairs = <<>> THEN levels
  ELSE LET price == Head(pairs)[1]
           amount == Head(pairs)[2]
           index == FindIndex(levels, price)
       IN IF amount = 0 /\ index # 0 THEN Splice(levels, index)
          ELSE IF amount # 0
          THEN IF index = 0
               THEN Append(levels, [price |-> price,
                                    amount |-> multiply(amount, precision),
                                    total |-> 0])
               ELSE UpdateSide(
                      [levels EXCEPT ![index].amount = multiply(amount, precision)],
                      Tail(pairs), precision)
          ELSE UpdateSide(levels, Tail(pairs), precision)

\* orderBook.asks.filter((a) => a.price >= lastPrice)
FilterAsks(levels, lastPrice) ==
  SeqFilter(levels, {l \in Range(levels) : l.price >= lastPrice})

\* FilterBids with the filter left out.
FilterBidsKeepsAll(levels, lastPrice) == levels

\* orderBook.bids.filter((b) => b.price <= lastPrice)
FilterBids(levels, lastPrice) ==
  SeqFilter(levels, {l \in Range(levels) : l.price <= lastPrice})

RECURSIVE InsertSorted(_, _, _)
\* One step of a stable sort: l goes after the levels that do not come after it.
InsertSorted(sorted, l, asc) ==
  IF sorted = <<>> THEN <<l>>
  ELSE IF (asc /\ Head(sorted).price <= l.price)
          \/ (~asc /\ Head(sorted).price >= l.price)
       THEN <<Head(sorted)>> \o InsertSorted(Tail(sorted), l, asc)
       ELSE <<l>> \o sorted

RECURSIVE SortLevels(_, _)
\* sortOrderBook of utils/orderbook, one side: ascending or descending price.
SortLevels(levels, asc) ==
  IF levels = <<>> THEN <<>>
  ELSE InsertSorted(SortLevels(SubSeq(levels, 1, Len(levels) - 1), asc),
                    levels[Len(levels)], asc)

RECURSIVE CalcTotal(_, _)
\* calcOrderBookTotal of utils/orderbook, one side: the running sum of amounts.
CalcTotal(levels, sum) ==
  IF levels = <<>> THEN <<>>
  ELSE << [Head(levels) EXCEPT !.total = sum + Head(levels).amount] >>
       \o CalcTotal(Tail(levels), sum + Head(levels).amount)

\* Merge with a snapshot added to the sides instead of replacing them.
MergeAppendsSnapshot(book, frame, precision) ==
  IF frame.action = "snapshot"
  THEN [bids |-> book.bids \o SnapshotSide(frame.bids, precision),
        asks |-> book.asks \o SnapshotSide(frame.asks, precision)]
  ELSE IF frame.action = "update"
  THEN [bids |-> UpdateSide(book.bids, frame.bids, precision),
        asks |-> UpdateSide(book.asks, frame.asks, precision)]
  ELSE book

\* The merge of one book message into the closure's orderBook, before the
\* filter: the snapshot branch, the update branch, or neither.
Merge(book, frame, precision) ==
  IF frame.action = "snapshot"
  THEN [bids |-> SnapshotSide(frame.bids, precision),
        asks |-> SnapshotSide(frame.asks, precision)]
  ELSE IF frame.action = "update"
  THEN [bids |-> UpdateSide(book.bids, frame.bids, precision),
        asks |-> UpdateSide(book.asks, frame.asks, precision)]
  ELSE book

\* PostMerge with calcOrderBookTotal left out.
PostMergeKeepsTotals(book, lastPrice) ==
  [bids |-> SortLevels(FilterBids(book.bids, lastPrice), FALSE),
   asks |-> SortLevels(FilterAsks(book.asks, lastPrice), TRUE)]

\* The tail of the books handler: filter on the last price, sort, totals.
PostMerge(book, lastPrice) ==
  [bids |-> CalcTotal(SortLevels(FilterBids(book.bids, lastPrice), FALSE), 0),
   asks |-> CalcTotal(SortLevels(FilterAsks(book.asks, lastPrice), TRUE), 0)]

\* const lastPrice = ticker?.last || 0, the ticker found by symbol.
LastPrice(tks, symbol) ==
  LET hits == {i \in DOMAIN tks : tks[i].symbol = symbol}
  IN IF hits = {} THEN 0
     ELSE tks[CHOOSE i \in hits : \A j \in hits : i <= j].last

\* store.updateTicker({ id }, { last, ... }): the record of that market is
\* merged in place, or added when the store holds none yet.
UpdateTicker(tks, id, last) ==
  LET hits == {i \in DOMAIN tks : tks[i].id = id}
      ms == {i \in DOMAIN Markets : Markets[i].id = id}
  IN IF hits # {}
     THEN [i \in DOMAIN tks |-> IF i \in hits THEN [tks[i] EXCEPT !.last = last]
                                               ELSE tks[i]]
     ELSE IF ms = {} THEN tks
     ELSE Append(tks, [id |-> id,
                       symbol |-> Markets[CHOOSE i \in ms : TRUE].symbol,
                       last |-> last])

\* ------------------------------------------------------- gate REST client
\* RECV_WINDOW of gate.types.
RECV_WINDOW == 5000

\* PUBLIC_ENDPOINTS of gate.types: ENDPOINTS.MARKETS, TICKERS, KLINE.
PUBLIC_ENDPOINTS ==
  << "/futures/usdt/contracts", "/futures/usdt/tickers",
     "/futures/usdt/candlesticks" >>

\* A text that is absent (undefined) where the code reads a string.
NoText == "undefined"

\* config.url values: a text is written as the sequence of the pieces it is
\* made of, the endpoint first; <<>> is no url.
Urls ==
  { <<>>,
    << "/futures/usdt/contracts", "/BTC_USDT" >>,
    << "/futures/usdt/tickers" >>,
    << "/futures/usdt/candlesticks" >>,
    << "/futures/usdt/accounts" >> }

\* config.method values.
Methods == { NoText, "get", "post" }

\* config.params values: insertion-ordered [k, v] pairs, keys and values
\* written character by character; <<>> is no params.
ParamSets ==
  { <<>>,
    << [k |-> << "a" >>, v |-> << "1" >>], [k |-> << "b" >>, v |-> << "2" >>] >>,
    << [k |-> << "a" >>, v |-> << "1", "&", "b", "=", "2" >>] >>,
    << [k |-> << "a" >>, v |-> << "1", "\n", "2" >>] >> }

\* config.data values: no body, or the object { x }.
Bodies == { [kind |-> "absent", x |-> 0], [kind |-> "object", x |-> 1] }

\* Readings of virtualClock.getCurrentTime().unix().
Times == { 1700000000, 1700000001 }

\* ExchangeOptions: key, secret, extra.recvWindow (Undefined when not given).
OptionSets ==
  [key : { NoText, "k" }, secret : { NoText, "s" },
   recvWindow : { Undefined, 0, 1000 }]

\* The request configs handed to the interceptor.
Configs == [url : Urls, method : Methods, params : ParamSets, data : Bodies]

RECURSIVE Concat(_)
\* The text made of the pieces of a sequence.
Concat(pieces) ==
  IF pieces = <<>> THEN "" ELSE Head(pieces) \o Concat(Tail(pieces))

\* str.startsWith(endpoint), for a url written with its endpoint first.
StartsWith(url, endpoint) == url # <<>> /\ url[1] = endpoint

\* PUBLIC_ENDPOINTS.some((str) => config?.url?.startsWith(str))
IsPublic(config) ==
  \E i \in DOMAIN PUBLIC_ENDPOINTS : StartsWith(config.url, PUBLIC_ENDPOINTS[i])

\* encodeURIComponent of one character, as qs.stringify applies it.
EncodeChar(c) ==
  IF c = "&" THEN << "%", "2", "6" >>
  ELSE IF c = "=" THEN << "%", "3", "D" >>
  ELSE IF c = "\n" THEN << "%", "0", "A" >>
  ELSE IF c = "%" THEN << "%", "2", "5" >>
  ELSE << c >>

RECURSIVE Encode(_)
Encode(chars) ==
  IF chars = <<>> THEN <<>> ELSE EncodeChar(Head(chars)) \o Encode(Tail(chars))

RECURSIVE QsStringify(_)
\* qs.stringify(params): k=v joined by &, keys and values percent-encoded.
QsStringify(params) ==
  IF params = <<>> THEN <<>>
  ELSE Encode(Head(params).k) \o << "=" >> \o Encode(Head(params).v)
       \o (IF Tail(params) = <<>> THEN <<>>
           ELSE << "&" >> \o QsStringify(Tail(params)))

\* The character a %XX escape stands for.
DecodeEscape(h1, h2) ==
  IF << h1, h2 >> = << "2", "6" >> THEN "&"
  ELSE IF << h1, h2 >> = << "3", "D" >> THEN "="
  ELSE IF << h1, h2 >> = << "0", "A" >> THEN "\n"
  ELSE "%"

RECURSIVE DecodeURIComponent(_)
\* decodeURIComponent(text)
DecodeURIComponent(chars) ==
  IF chars = <<>> THEN <<>>
  ELSE IF Head(chars) = "%" /\ Len(chars) >= 3
  THEN << DecodeEscape(chars[2], chars[3]) >>
       \o DecodeURIComponent(SubSeq(chars, 4, Len(chars)))
  ELSE << Head(chars) >> \o DecodeURIComponent(Tail(chars))

\* const url = `/api/v4${config.url ? config.url : ''}`
SignedUrl(config) == "/api/v4" \o Concat(config.url)

\* const method = config.method?.toUpperCase?.() || 'GET'
SignedMethod(config) ==
  IF config.method = NoText THEN "GET"
  ELSE IF config.method = "get" THEN "GET"
  ELSE IF config.method = "post" THEN "POST"
  ELSE config.method

\* const params = config.params ? decodeURIComponent(qs.stringify(...)) : ''
SignedParams(config) == Concat(DecodeURIComponent(QsStringify(config.params)))

\* JSON.stringify(config.data), '' when there is no data.
BodyText(config) ==
  IF config.data.kind = "absent" THEN ""
  ELSE "{\"x\":" \o ToString(config.data.x) \o "}"

\* createHash('sha512').update(text).digest('hex'): the digest of a text is
\* written by naming the text (no two texts share a digest).
Sha512Hex(text) == "sha512(" \o text \o ")"

\* createHmac('sha512', secret).update(text).digest('hex'), written likewise.
HmacSha512Hex(secret, text) == "hmac(" \o secret \o "," \o text \o ")"

\* ToSign with the timestamp left out of the joined text.
ToSignWithoutTimestamp(config, timestamp) ==
  SignedMethod(config) \o "\n" \o SignedUrl(config) \o "\n"
  \o SignedParams(config) \o "\n" \o Sha512Hex(BodyText(config))

\* [method, url, params, data, timestamp].join('\n')
ToSign(config, timestamp) ==
  SignedMethod(config) \o "\n" \o SignedUrl(config) \o "\n"
  \o SignedParams(config) \o "\n" \o Sha512Hex(BodyText(config)) \o "\n"
  \o ToString(timestamp)

\* What the request interceptor returns for a config: the config as it came
\* (public endpoint), or the config with the KEY, SIGN and Timestamp headers
\* and the timeout; createHmac throws when the secret is undefined.
Intercept(options, config, timestamp) ==
  IF IsPublic(config)
  THEN [kind |-> "config", config |-> config, toSign |-> "",
        KEY |-> NoText, SIGN |-> NoText, Timestamp |-> Undefined,
        timeout |-> Undefined]
  ELSE IF options.secret = NoText
  THEN [kind |-> "throws", config |-> config, toSign |-> ToSign(config, timestamp),
        KEY |-> NoText, SIGN |-> NoText, Timestamp |-> Undefined,
        timeout |-> Undefined]
  ELSE [kind |-> "config", config |-> config, toSign |-> ToSign(config, timestamp),
        KEY |-> options.key,
        SIGN |-> HmacSha512Hex(options.secret, ToSign(config, timestamp)),
        Timestamp |-> timestamp,
        timeout |-> IF options.recvWindow = Undefined THEN RECV_WINDOW
                    ELSE options.recvWindow]

\* No request yet.
NoCall ==
  [made |-> FALSE, time |-> 0,
   result |-> [kind |-> "none",
               config |-> [url |-> <<>>, method |-> NoText, params |-> <<>>,
                           data |-> [kind |-> "absent", x |-> 0]],
               toSign |-> "", KEY |-> NoText, SIGN |-> NoText,
               Timestamp |-> Undefined, timeout |-> Undefined]]

\* createAPI not called yet.
NoGate ==
  [client |-> "none",
   options |-> [key |-> NoText, secret |-> NoText, recvWindow |-> Undefined],
   prev |-> NoCall, last |-> NoCall]

\* ------------------------------------------------------------------ state
VARIABLES
  loaded,          \* store.loaded.markets
  tickers,         \* store.tickers: sequence of [id, symbol, last]
  isDisposed,      \* BaseWebSocket.isDisposed
  ws,              \* this.ws: "none" | "connecting" | "open" | "closing"
  pingTimeoutId,   \* TRUE while this.pingTimeoutId names a pending timer
  pingTimers,      \* keepalive timers (setTimeout(() => this.ping(), 10_000))
                   \* armed and neither fired nor cleared
  topics,          \* this.topics, the ledger: key -> array of topics
  messageHandlers, \* this.messageHandlers: key -> handler
  req,             \* the consumer's listen calls: [kind, symbol, interval]
  clo,             \* per call, the closure the caller's teardown belongs to
                   \* (h) and the closure of the latest retried call (c)
  torn,            \* calls whose teardown has been invoked
  closedLedger,    \* [closed, args, clean]: whether the connection was lost,
                   \* the ledger's topics at that moment, and whether no
                   \* teardown has run since
  out,             \* frames sent on the socket by the last step
  cbs,             \* consumer callbacks invoked by the last step, each with
                   \* the frame whose handling invoked it and the book the
                   \* closure held before it
  armed,           \* timers armed by the last step and still pending
  handled,         \* book frames received in an order book behaviour
  gate             \* the gate REST client: [client, options, prev, last]

vars ==
  << loaded, tickers, isDisposed, ws, pingTimeoutId, pingTimers, topics,
     messageHandlers, req, clo, torn, closedLedger, out, cbs, armed, handled,
     gate >>

Calls == 1..MaxCalls

NoFrame ==
  [type |-> "none", channel |-> "", instId |-> "", action |-> "",
   bids |-> <<>>, asks |-> <<>>, last |-> 0]

NoRequest == [kind |-> "none", symbol |-> "", interval |-> ""]

\* let timeoutId = null; const orderBook = { bids: [], asks: [] }; `at` is the
\* last price in force when this closure's book was last delivered.
NoClosure ==
  [mode |-> "none", timer |-> FALSE, bids |-> <<>>, asks |-> <<>>, at |-> 0]

NewClosure(mode) == [NoClosure EXCEPT !.mode = mode]

\* get isConnected() of BaseWebSocket: the socket is open.
isConnected == ws = "open"

\* this.ws?.send?.(frame): a frame leaves only on an open socket.
Send(frame) == IF ws = "open" THEN <<frame>> ELSE <<>>

SubscribeFrame(args) == [op |-> "subscribe", args |-> args]

UnsubscribeFrame(args) == [op |-> "unsubscribe", args |-> args]

PingFrame == [op |-> "ping", args |-> <<>>]

\* messageHandlers = { tickers: ..., 'funding-rate': ... }
InitialHandlers ==
  << [key |-> "tickers", val |-> [fn |-> "tickers", r |-> 0, g |-> "-"]],
     [key |-> "funding-rate", val |-> [fn |-> "funding-rate", r |-> 0, g |-> "-"]] >>

\* The market of a request whose symbol the store knows.
MarketOf(q) == Markets[FindMarket(TRUE, q.symbol)]

\* const topic = { channel: 'books', instId: market.id } of listenOrderBook,
\* { channel: `candle${interval}`, instId: market.id } of listenOHLCV.
TopicOf(q) ==
  IF q.kind = "orderBook"
  THEN Topic("books", MarketOf(q).id)
  ELSE Topic("candle" \o INTERVAL(q.interval), MarketOf(q).id)

\* The key the request's handler is registered under.
HandlerKey(q) ==
  IF q.kind = "orderBook" THEN "books" ELSE TopicAsString(TopicOf(q))

\* The key the request's topic is recorded under in the ledger.
LedgerKey(q) ==
  IF q.kind = "orderBook" THEN "orderBook" ELSE TopicAsString(TopicOf(q))

HandlerFn(q) == IF q.kind = "orderBook" THEN "books" ELSE "ohlcv"

Init ==
  /\ loaded = FALSE
  /\ tickers = <<>>
  /\ isDisposed = FALSE
  /\ ws = "none"
  /\ pingTimeoutId = FALSE
  /\ pingTimers = 0
  /\ topics = <<>>
  /\ messageHandlers = InitialHandlers
  /\ req = [r \in Calls |-> NoRequest]
  /\ clo = [r \in Calls |-> [h |-> NoClosure, c |-> NoClosure]]
  /\ torn = {}
  /\ closedLedger = [closed |-> FALSE, args |-> <<>>, clean |-> FALSE]
  /\ out = <<>>
  /\ cbs = <<>>
  /\ armed = {}
  /\ handled = 0
  /\ gate = NoGate

\* ---------------------------------------------------------------- session
\* The markets finish loading (the exchange's start-up, outside this class).
LoadMarkets ==
  /\ ~loaded
  /\ loaded' = TRUE
  /\ out' = <<>> /\ cbs' = <<>> /\ armed' = {}
  /\ UNCHANGED << tickers, isDisposed, ws, pingTimeoutId, pingTimers, topics,
                  messageHandlers, req, clo, torn, closedLedger,
                  handled, gate >>

\* connectAndSubscribe with the ledger built anew from the markets.
connectAndSubscribeResetsLedger ==
  /\ ws = "none"
  /\ loaded
  /\ IF ~isDisposed
     THEN /\ ws' = "connecting"
          /\ topics' = Put(Put(<<>>, "tickers", MarketTopics(loaded, "tickers")),
                           "funding-rate", MarketTopics(loaded, "funding-rate"))
     ELSE UNCHANGED << ws, topics >>
  /\ out' = <<>> /\ cbs' = <<>> /\ armed' = {}
  /\ UNCHANGED << loaded, tickers, isDisposed, pingTimeoutId, pingTimers, messageHandlers,
                  req, clo, torn, closedLedger, handled, gate >>

\* connectAndSubscribe: called by the exchange once the markets are loaded,
\* and again after the connection was lost.
connectAndSubscribe ==
  /\ ws = "none"
  /\ loaded
  /\ IF ~isDisposed
     THEN /\ ws' = "connecting"
          /\ topics' = Put(Put(topics, "tickers", MarketTopics(loaded, "tickers")),
                           "funding-rate", MarketTopics(loaded, "funding-rate"))
     ELSE UNCHANGED << ws, topics >>
  /\ out' = <<>> /\ cbs' = <<>> /\ armed' = {}
  /\ UNCHANGED << loaded, tickers, isDisposed, pingTimeoutId, pingTimers, messageHandlers,
                  req, clo, torn, closedLedger,
                  handled, gate >>

\* onOpen: subscribe() sends every topic of the ledger in one frame, then ping().
\* An open event still in flight when the session was disposed is delivered too.
onOpen ==
  /\ ws \in {"connecting", "closing"}
  /\ IF ~isDisposed
     THEN /\ ws' = "open"
          /\ out' = << SubscribeFrame(Flatten(topics)), PingFrame >>
     ELSE /\ ws' = ws
          /\ out' = <<>>
  /\ cbs' = <<>> /\ armed' = {}
  /\ UNCHANGED << loaded, tickers, isDisposed, pingTimeoutId, pingTimers, topics,
                  messageHandlers, req, clo, torn, closedLedger,
                  handled, gate >>

\* onClose of BaseWebSocket: the connection is lost; a session that is not
\* disposed goes on to reconnect (connectAndSubscribe).
onClose ==
  /\ ws \in {"connecting", "open", "closing"}
  /\ ws' = "none"
  /\ closedLedger' = IF isDisposed THEN closedLedger
                     ELSE [closed |-> TRUE, args |-> Flatten(topics), clean |-> TRUE]
  /\ out' = <<>> /\ cbs' = <<>> /\ armed' = {}
  /\ UNCHANGED << loaded, tickers, isDisposed, pingTimeoutId, pingTimers, topics,
                  messageHandlers, req, clo, torn,
                  handled, gate >>

\* dispose of BaseWebSocket: the session's timer, handler table and ledger are
\* cleared and the socket is closed; it is no longer connected.
dispose ==
  /\ isDisposed' = TRUE
  /\ pingTimeoutId' = FALSE
  /\ pingTimers' = IF pingTimeoutId THEN pingTimers - 1 ELSE pingTimers
  /\ messageHandlers' = <<>>
  /\ topics' = <<>>
  /\ ws' = IF ws = "none" THEN "none" ELSE "closing"
  /\ out' = <<>> /\ cbs' = <<>> /\ armed' = {}
  /\ UNCHANGED << loaded, tickers, req, clo, torn, closedLedger,
                  handled, gate >>

\* ping: a keepalive timer fires; the one this.pingTimeoutId names when that
\* one is pending.
ping ==
  /\ pingTimers > 0
  /\ pingTimers' = pingTimers - 1
  /\ pingTimeoutId' = FALSE
  /\ out' = IF ~isDisposed THEN Send(PingFrame) ELSE <<>>
  /\ cbs' = <<>> /\ armed' = {}
  /\ UNCHANGED << loaded, tickers, isDisposed, ws, topics, messageHandlers,
                  req, clo, torn, closedLedger,
                  handled, gate >>

\* ----------------------------------------------------------- listen calls
\* waitForConnectedAndSubscribe that gives up when the session is not Open.
waitForConnectedAndSubscribeOnce(r, g, q, c0) ==
  IF isConnected /\ ~isDisposed
  THEN /\ messageHandlers' =
            Put(messageHandlers, HandlerKey(q),
                [fn |-> HandlerFn(q), r |-> r, g |-> g])
       /\ out' = Send(SubscribeFrame(<< TopicOf(q) >>))
       /\ topics' = Put(topics, LedgerKey(q), << TopicOf(q) >>)
       /\ clo' = c0
       /\ armed' = {}
  ELSE /\ clo' = c0
       /\ out' = <<>> /\ armed' = {}
       /\ UNCHANGED << messageHandlers, topics >>

\* waitForConnectedAndSubscribe of the closure g of call r; c0 is clo as the
\* caller of this step has already changed it.
waitForConnectedAndSubscribe(r, g, q, c0) ==
  IF isConnected
  THEN IF ~isDisposed
       THEN /\ messageHandlers' =
                 Put(messageHandlers, HandlerKey(q),
                     [fn |-> HandlerFn(q), r |-> r, g |-> g])
            /\ out' = Send(SubscribeFrame(<< TopicOf(q) >>))
            /\ topics' = Put(topics, LedgerKey(q), << TopicOf(q) >>)
            /\ clo' = c0
            /\ armed' = {}
       ELSE /\ clo' = c0
            /\ out' = <<>> /\ armed' = {}
            /\ UNCHANGED << messageHandlers, topics >>
  ELSE /\ clo' = [c0 EXCEPT ![r][g].timer = TRUE]
       /\ armed' = {<< r, g >>}
       /\ out' = <<>>
       /\ UNCHANGED << messageHandlers, topics >>

\* The body of listenOrderBook / listenOHLCV for call r (request q), run as closure g:
\* markets not loaded -> a 100 ms timer that calls the method again; unknown
\* symbol -> nothing; otherwise waitForConnectedAndSubscribe().
ListenBody(r, g, q, c0) ==
  IF ~loaded
  THEN /\ clo' = [c0 EXCEPT ![r][g] = [NewClosure("deferred") EXCEPT !.timer = TRUE]]
       /\ armed' = {<< r, g >>}
       /\ out' = <<>>
       /\ UNCHANGED << messageHandlers, topics >>
  ELSE IF FindMarket(loaded, q.symbol) = 0
  THEN /\ clo' = [c0 EXCEPT ![r][g] = IF g = "h" THEN NewClosure("noop")
                                                 ELSE NoClosure]
       /\ out' = <<>> /\ armed' = {}
       /\ UNCHANGED << messageHandlers, topics >>
  ELSE waitForConnectedAndSubscribe(r, g, q,
                                    [c0 EXCEPT ![r][g] = NewClosure("full")])

\* The lowest call number not used yet.
NextCall == CHOOSE r \in Calls : req[r].kind = "none" /\ \A q \in Calls : q < r => req[q].kind # "none"

\* The consumer calls listenOrderBook(symbol, callback).
listenOrderBook(symbol) ==
  /\ \E r \in Calls : req[r].kind = "none"
  /\ LET r == NextCall
         q == [kind |-> "orderBook", symbol |-> symbol, interval |-> ""]
     IN /\ req' = [req EXCEPT ![r] = q]
        /\ ListenBody(r, "h", q, clo)
  /\ cbs' = <<>>
  /\ UNCHANGED << loaded, tickers, isDisposed, ws, pingTimeoutId, pingTimers, torn,
                  closedLedger,
                  handled, gate >>

\* The consumer calls listenOHLCV({ symbol, interval }, callback).
listenOHLCV(symbol, interval) ==
  /\ \E r \in Calls : req[r].kind = "none"
  /\ LET r == NextCall
         q == [kind |-> "ohlcv", symbol |-> symbol, interval |-> interval]
     IN /\ req' = [req EXCEPT ![r] = q]
        /\ ListenBody(r, "h", q, clo)
  /\ cbs' = <<>>
  /\ UNCHANGED << loaded, tickers, isDisposed, ws, pingTimeoutId, pingTimers, torn,
                  closedLedger,
                  handled, gate >>

\* The deferred-readiness timer of closure g of call r fires:
\* () => this.listenOrderBook(symbol, callback), whose closure replaces c and
\* whose returned teardown nobody holds.
RetryListen(r, g) ==
  /\ clo[r][g].mode = "deferred"
  /\ clo[r][g].timer
  /\ req' = req
  /\ ListenBody(r, "c", req[r], [clo EXCEPT ![r][g].timer = FALSE])
  /\ cbs' = <<>>
  /\ UNCHANGED << loaded, tickers, isDisposed, ws, pingTimeoutId, pingTimers, torn,
                  closedLedger,
                  handled, gate >>

\* The wait-for-connection timer of closure g of call r fires.
RetryWait(r, g) ==
  /\ clo[r][g].mode = "full"
  /\ clo[r][g].timer
  /\ waitForConnectedAndSubscribe(r, g, req[r],
                                  [clo EXCEPT ![r][g].timer = FALSE])
  /\ cbs' = <<>>
  /\ UNCHANGED << loaded, tickers, isDisposed, ws, pingTimeoutId, pingTimers, req, torn,
                  closedLedger,
                  handled, gate >>

\* The consumer calls the teardown that call r returned.
Teardown(r) ==
  /\ req[r].kind # "none"
  /\ IF clo[r].h.mode = "deferred"
     THEN /\ clo' = [clo EXCEPT ![r].h.timer = FALSE]
          /\ out' = <<>>
          /\ UNCHANGED << messageHandlers, topics >>
     ELSE IF clo[r].h.mode = "noop"
     THEN /\ out' = <<>>
          /\ UNCHANGED << clo, messageHandlers, topics >>
     ELSE /\ messageHandlers' = Delete(messageHandlers, HandlerKey(req[r]))
          /\ topics' = Delete(topics, LedgerKey(req[r]))
          /\ clo' = [clo EXCEPT ![r].h.timer = FALSE,
                                ![r].h.bids = <<>>,
                                ![r].h.asks = <<>>]
          /\ out' = IF isConnected
                    THEN Send(UnsubscribeFrame(<< TopicOf(req[r]) >>))
                    ELSE <<>>
  /\ torn' = torn \cup {r}
  /\ closedLedger' = [closedLedger EXCEPT !.clean = FALSE]
  /\ cbs' = <<>> /\ armed' = {}
  /\ UNCHANGED << loaded, tickers, isDisposed, ws, pingTimeoutId, pingTimers, req,
                  handled, gate >>

\* --------------------------------------------------------- inbound frames
\* An inbound text frame, written by what onMessage and the handlers read of
\* it: "pong"; a subscription acknowledgment ({"event":"subscribe","arg":...});
\* a data frame ({"arg":{"channel":..,"instId":..},...}); or text that names a
\* channel and that jsonParse cannot parse ("bad").
PongFrame == [NoFrame EXCEPT !.type = "pong"]

SubAckFrame(channel, instId) ==
  [NoFrame EXCEPT !.type = "suback", !.channel = channel, !.instId = instId]

BadFrame(channel, instId) ==
  [NoFrame EXCEPT !.type = "bad", !.channel = channel, !.instId = instId]

TickerFrame(instId, last) ==
  [NoFrame EXCEPT !.type = "data", !.channel = "tickers", !.instId = instId,
                  !.last = last]

CandleFrame(channel, instId, action) ==
  [NoFrame EXCEPT !.type = "data", !.channel = channel, !.instId = instId,
                  !.action = action]

BookFrame(instId, action, bids, asks) ==
  [NoFrame EXCEPT !.type = "data", !.channel = "books", !.instId = instId,
                  !.action = action, !.bids = bids, !.asks = asks]

\* data.includes(key): the key is a channel name, or the JSON text of a topic,
\* both of which occur in a frame exactly where its arg names them.
Includes(frame, key) ==
  /\ frame.type # "pong"
  /\ \/ key = frame.channel
     \/ key = TopicAsString(Topic(frame.channel, frame.instId))

\* data.includes('event":"subscribe"')
IsSubscribeAck(frame) == frame.type = "suback"

\* jsonParse(data): undefined for text that is no JSON.
jsonParse(frame) == frame.type # "bad"

\* MatchingHandler without the test for a subscription acknowledgment.
MatchingHandlerOfAck(frame) ==
  LET hits == {i \in DOMAIN messageHandlers :
                 Includes(frame, messageHandlers[i].key)}
  IN IF hits = {} THEN 0 ELSE CHOOSE i \in hits : \A j \in hits : i <= j

\* The first entry of messageHandlers whose key the frame includes (0: none):
\* the loop of onMessage stops at it (break).
MatchingHandler(frame) ==
  LET hits == {i \in DOMAIN messageHandlers :
                 Includes(frame, messageHandlers[i].key) /\ ~IsSubscribeAck(frame)}
  IN IF hits = {} THEN 0 ELSE CHOOSE i \in hits : \A j \in hits : i <= j

\* handlePongEvent without the clearTimeout of the pending timer.
handlePongEventKeepsTimer ==
  /\ pingTimeoutId' = TRUE
  /\ pingTimers' = pingTimers + 1
  /\ armed' = {<< 0, "ping" >>}
  /\ out' = <<>> /\ cbs' = <<>>
  /\ UNCHANGED << tickers, clo >>

\* handlePongEvent: the timer this.pingTimeoutId names is cleared and a new
\* one armed.
handlePongEvent ==
  /\ pingTimeoutId' = TRUE
  /\ pingTimers' = (IF pingTimeoutId THEN pingTimers - 1 ELSE pingTimers) + 1
  /\ armed' = {<< 0, "ping" >>}
  /\ out' = <<>> /\ cbs' = <<>>
  /\ UNCHANGED << tickers, clo >>

\* messageHandlers.books of closure g of call r.
BooksHandler(r, g, frame) ==
  LET market == MarketOf(req[r])
      lastPrice == LastPrice(tickers, market.symbol)
      merged == Merge([bids |-> clo[r][g].bids, asks |-> clo[r][g].asks],
                      frame, market.precision)
      book == PostMerge(merged, lastPrice)
  IN /\ clo' = [clo EXCEPT ![r][g].bids = book.bids,
                           ![r][g].asks = book.asks,
                           ![r][g].at = lastPrice]
     /\ cbs' = << [r |-> r, g |-> g, frame |-> frame,
                    before |-> [bids |-> clo[r][g].bids, asks |-> clo[r][g].asks,
                                at |-> clo[r][g].at]] >>
     /\ UNCHANGED << tickers, pingTimeoutId, pingTimers >>
     /\ out' = <<>> /\ armed' = {}

\* The handler of listenOHLCV's closure: the callback gets data.data[0], if any.
CandleHandler(r, g, frame) ==
  /\ cbs' = IF frame.action = "candle"
            THEN << [r |-> r, g |-> g, frame |-> frame,
                     before |-> [bids |-> <<>>, asks |-> <<>>, at |-> 0]] >>
            ELSE <<>>
  /\ UNCHANGED << tickers, clo, pingTimeoutId, pingTimers >>
  /\ out' = <<>> /\ armed' = {}

\* handleTickerEvents
handleTickerEvents(frame) ==
  /\ tickers' = UpdateTicker(tickers, frame.instId, frame.last)
  /\ UNCHANGED << clo, pingTimeoutId, pingTimers >>
  /\ out' = <<>> /\ cbs' = <<>> /\ armed' = {}

\* The frame is dropped.
Ignored ==
  /\ UNCHANGED << tickers, clo, pingTimeoutId, pingTimers >>
  /\ out' = <<>> /\ cbs' = <<>> /\ armed' = {}

\* onMessage: a frame arrives on the socket (also one still in flight when
\* the session was disposed).
onMessage(frame) ==
  /\ ws \in {"open", "closing"}
  /\ IF isDisposed THEN Ignored
     ELSE IF frame.type = "pong" THEN handlePongEvent
     ELSE LET i == MatchingHandler(frame)
          IN IF i = 0 \/ ~jsonParse(frame) THEN Ignored
             ELSE LET h == messageHandlers[i].val
                  IN IF h.fn = "tickers" THEN handleTickerEvents(frame)
                     ELSE IF h.fn = "books" THEN BooksHandler(h.r, h.g, frame)
                     ELSE IF h.fn = "ohlcv" THEN CandleHandler(h.r, h.g, frame)
                     ELSE Ignored
  /\ UNCHANGED << loaded, isDisposed, ws, topics, messageHandlers, req, torn,
                  closedLedger >>

\* The frames the session behaviours draw from.
SessionFrames ==
  { PongFrame,
    SubAckFrame("books", "x"),
    BadFrame("books", "x"),
    TickerFrame("x", 100),
    BookFrame("x", "snapshot", << <<99, 1>> >>, << <<101, 1>> >>),
    CandleFrame("candle1m", "x", "candle") }

\* A frame arrives in a session behaviour.
Receive(frame) == onMessage(frame) /\ UNCHANGED << handled, gate >>

Next ==
  \/ LoadMarkets
  \/ connectAndSubscribe
  \/ onOpen
  \/ onClose
  \/ dispose
  \/ ping
  \/ \E f \in SessionFrames : Receive(f)
  \/ \E s \in ListenSymbols : listenOrderBook(s)
  \/ \E s \in CandleSymbols, iv \in ListenIntervals : listenOHLCV(s, iv)
  \/ \E r \in Calls, g \in {"h", "c"} : RetryListen(r, g)
  \/ \E r \in Calls, g \in {"h", "c"} : RetryWait(r, g)
  \/ \E r \in Calls : Teardown(r)

Spec == Init /\ [][Next]_vars

\* ------------------------------------------------- order book behaviours
\* The (price, amount) pairs of the wire, and the sides built of them.
Pairs == Prices \X Amounts

\* A side of a book message names each price once, as the book feed does.
SidesOf(n) ==
  {s \in [1..n -> Pairs] : \A i, j \in 1..n : s[i][1] = s[j][1] => i = j}

\* The [bids, asks] contents with at most MaxPairs pairs in all.
BookData ==
  UNION { { [bids |-> b, asks |-> a] : b \in SidesOf(nb), a \in SidesOf(na) } :
          nb \in 0..MaxPairs, na \in 0..MaxPairs }

BoundedBookData == {d \in BookData : Len(d.bids) + Len(d.asks) <= MaxPairs}

\* The scenario of the specification: bids=[[100,2],[99,1]], asks=[[101,3]].
ScenarioSnapshot ==
  BookFrame("x", "snapshot", << <<100, 2>>, <<99, 1>> >>, << <<101, 3>> >>)

BookFrames ==
  { BookFrame(i, a, d.bids, d.asks) :
      i \in {"x", "y"}, a \in {"snapshot", "update"}, d \in BoundedBookData }
  \cup { ScenarioSnapshot }

TickerFrames == { TickerFrame(i, l) : i \in {"x", "y"}, l \in Lasts }

\* A session that is open with the markets loaded, in which the consumer has
\* called listenOrderBook for a market of the store.
InitBook ==
  \E s \in {"X", "Y"} :
    LET q == [kind |-> "orderBook", symbol |-> s, interval |-> ""]
    IN /\ loaded = TRUE
       /\ tickers = <<>>
       /\ isDisposed = FALSE
       /\ ws = "open"
       /\ pingTimeoutId = FALSE
       /\ pingTimers = 0
       /\ topics = Put(Put(Put(<<>>, "tickers", MarketTopics(TRUE, "tickers")),
                           "funding-rate", MarketTopics(TRUE, "funding-rate")),
                       "orderBook", << TopicOf(q) >>)
       /\ messageHandlers =
            Put(InitialHandlers, "books", [fn |-> "books", r |-> 1, g |-> "h"])
       /\ req = [r \in Calls |-> IF r = 1 THEN q ELSE NoRequest]
       /\ clo = [r \in Calls |->
                   [h |-> IF r = 1 THEN NewClosure("full") ELSE NoClosure,
                    c |-> NoClosure]]
       /\ torn = {}
       /\ closedLedger = [closed |-> FALSE, args |-> <<>>, clean |-> FALSE]
       /\ out = <<>>
       /\ cbs = <<>>
       /\ armed = {}
       /\ handled = 0
       /\ gate = NoGate

\* The exchange sends book and ticker data of the instruments the consumer
\* has asked an order book for.
Subscribed(instId) ==
  \E r \in Calls : /\ req[r].kind = "orderBook"
                   /\ FindMarket(TRUE, req[r].symbol) # 0
                   /\ MarketOf(req[r]).id = instId

\* A book frame arrives in an order book behaviour.
ReceiveBook(frame) ==
  /\ handled < MaxMessages
  /\ Subscribed(frame.instId)
  /\ onMessage(frame)
  /\ handled' = handled + 1
  /\ UNCHANGED gate

\* A ticker frame arrives in an order book behaviour.
ReceiveTicker(frame) ==
  /\ Subscribed(frame.instId)
  /\ onMessage(frame)
  /\ UNCHANGED << handled, gate >>

NextBook ==
  \/ \E f \in BookFrames : ReceiveBook(f)
  \/ \E f \in TickerFrames : ReceiveTicker(f)

SpecBook == InitBook /\ [][NextBook]_vars

\* ------------------------------------------------ keepalive behaviours
\* The session's life with its keepalive: the connection comes and goes, pongs
\* arrive, the keepalive timer fires. A timer that is armed fires; a session
\* that lost its connection connects again and, the network permitting again
\* and again, opens.
NextLive ==
  \/ LoadMarkets
  \/ connectAndSubscribe
  \/ onOpen
  \/ onClose
  \/ dispose
  \/ ping
  \/ Receive(PongFrame)
  \/ Receive(TickerFrame("x", 100))
  \/ \E s \in {"X"} : listenOrderBook(s)
  \/ \E r \in Calls, g \in {"h", "c"} : RetryListen(r, g)
  \/ \E r \in Calls, g \in {"h", "c"} : RetryWait(r, g)

SpecLive ==
  /\ Init
  /\ [][NextLive]_vars
  /\ WF_vars(ping)
  /\ WF_vars(connectAndSubscribe)
  /\ SF_vars(onOpen)

\* ---------------------------------------------------- gate behaviours
\* The variables of the websocket session.
wsVars ==
  << loaded, tickers, isDisposed, ws, pingTimeoutId, pingTimers, topics,
     messageHandlers, req, clo, torn, closedLedger, out, cbs, armed, handled >>

\* createAPI(options): axios.create, retry, the interceptor installed, the
\* client returned; the options are not read before a request is signed.
createAPI(options) ==
  /\ gate.client = "none"
  /\ gate' = [gate EXCEPT !.client = "created", !.options = options]
  /\ UNCHANGED wsVars

\* A request goes through the client's interceptor at clock reading t (the
\* behaviours stop after two requests).
Request(config, t) ==
  /\ gate.client = "created"
  /\ ~gate.prev.made
  /\ gate' = [gate EXCEPT
                !.prev = gate.last,
                !.last = [made |-> TRUE, time |-> t,
                          result |-> Intercept(gate.options, config, t)]]
  /\ UNCHANGED wsVars

NextApi ==
  \/ \E o \in OptionSets : createAPI(o)
  \/ \E c \in Configs, t \in Times : Request(c, t)

SpecApi == Init /\ [][NextApi]_vars

\* ------------------------------------------------------------- the claims
\* Call r was made while the markets were not loaded, and its teardown has
\* been invoked since.
DeferredCancelled(r) == r \in torn /\ clo[r].h.mode = "deferred"

\* C1: once the teardown of a listen call made before the markets were loaded
\* has been invoked, no retry timer of that call is pending, no handler is
\* registered for it, and its consumer callback is not invoked.
C1_DeferredCancellation ==
  \A r \in Calls :
    DeferredCancelled(r) =>
      /\ ~clo[r].h.timer
      /\ ~clo[r].c.timer
      /\ clo[r].c.mode # "full"
      /\ \A i \in DOMAIN messageHandlers : messageHandlers[i].val.r # r
      /\ \A i \in DOMAIN cbs : cbs[i].r # r

\* C2: from a disposed session no step sends a frame or invokes a consumer
\* callback, and no timer that fires re-arms itself.
C2_DisposedAbsorbing ==
  [][isDisposed =>
       /\ out' = <<>>
       /\ cbs' = <<>>
       /\ \A r \in Calls, g \in {"h", "c"} :
            (RetryListen(r, g) \/ RetryWait(r, g)) => armed' = {}]_vars

\* The step just taken was onOpen on a connection that replaces a lost one,
\* and no teardown ran between the loss and the reopening.
ReopenedClean ==
  /\ Len(out) = 2
  /\ out[2] = PingFrame
  /\ closedLedger.closed
  /\ closedLedger.clean

\* C3: the subscribe frame sent when the connection reopens lists exactly the
\* topics the ledger held when the connection was lost.
C3_ResubscriptionExact ==
  ReopenedClean => out[1] = SubscribeFrame(closedLedger.args)

\* C3 witness: a reopening after a listen call was torn down and another was
\* not: the frame lists the order book topic and no candle topic.
C3_Witness ==
  /\ ReopenedClean
  /\ torn # {}
  /\ \E i \in DOMAIN out[1].args : out[1].args[i].channel = "books"
  /\ \A i \in DOMAIN out[1].args : out[1].args[i].channel # "candle1m"
  /\ \E r \in torn : req[r].kind = "ohlcv" /\ req[r].interval = "1m"
                     /\ clo[r].h.mode = "full"

\* C9: a teardown invoked again sends no frame and changes no handler, ledger
\* entry or timer.
C9_TeardownIdempotent ==
  [][\A r \in Calls :
       (r \in torn /\ Teardown(r)) =>
         /\ out' = <<>>
         /\ messageHandlers' = messageHandlers
         /\ topics' = topics
         /\ \A q \in Calls, g \in {"h", "c"} : clo'[q][g].timer = clo[q][g].timer]_vars

\* The candle topics among the keys of a table (the ledger, the handlers).
CandleKeys(obj) ==
  {k \in Keys(obj) :
     \E s \in CandleSymbols, iv \in ListenIntervals :
       k = TopicAsString(TopicOf([kind |-> "ohlcv", symbol |-> s, interval |-> iv]))}

\* C10: the ledger and the handler table hold at most one candle topic, and a
\* listenOHLCV call made while another candle topic is in the ledger sends
\* the unsubscribe frame of that topic before its own subscribe frame.
C10_SingleCandleTopic ==
  /\ [](Cardinality(CandleKeys(topics)) <= 1
        /\ Cardinality(CandleKeys(messageHandlers)) <= 1)
  /\ [][\A s \in CandleSymbols, iv \in ListenIntervals :
          LET q == [kind |-> "ohlcv", symbol |-> s, interval |-> iv]
              prior == CandleKeys(topics) \ {TopicAsString(TopicOf(q))}
          IN (listenOHLCV(s, iv) /\ isConnected /\ prior # {}) =>
               \E k \in prior :
                 out' = << UnsubscribeFrame(Get(topics, k)),
                           SubscribeFrame(<< TopicOf(q) >>) >>]_vars

\* The last step handed an order book to a consumer callback.
Delivered == cbs # <<>> /\ cbs[1].frame.channel = "books"

\* The book handed to the callback: the closure's orderBook after the handler.
DeliveredBook ==
  [bids |-> clo[cbs[1].r][cbs[1].g].bids, asks |-> clo[cbs[1].r][cbs[1].g].asks]

\* The market of the closure the book was delivered from, and the last price
\* of its symbol at that moment.
DeliveredMarket == MarketOf(req[cbs[1].r])

DeliveredLast == LastPrice(tickers, DeliveredMarket.symbol)

RECURSIVE ApplyPairs(_, _, _)
\* The update rule as stated, applied to every pair in order: amount zero and
\* level exists -> deleted; amount zero and no level -> no change; amount
\* nonzero and no level -> inserted with amount x precision; amount nonzero
\* and level exists -> amount replaced.
ApplyPairs(levels, pairs, precision) ==
  IF pairs = <<>> THEN levels
  ELSE LET price == Head(pairs)[1]
           amount == Head(pairs)[2]
           hits == {i \in DOMAIN levels : levels[i].price = price}
           next ==
             IF amount = 0
             THEN SeqFilter(levels, {l \in Range(levels) : l.price # price})
             ELSE IF hits = {}
             THEN Append(levels, [price |-> price, amount |-> amount * precision,
                                  total |-> 0])
             ELSE [i \in DOMAIN levels |->
                     IF i \in hits
                     THEN [levels[i] EXCEPT !.amount = amount * precision]
                     ELSE levels[i]]
       IN ApplyPairs(next, Tail(pairs), precision)

\* C4: the book delivered after an update message is the one obtained by
\* applying the update rule to every pair of each side, in order.
C4_UpdateAppliesEveryPair ==
  (Delivered /\ cbs[1].frame.action = "update") =>
    DeliveredBook =
      PostMerge([bids |-> ApplyPairs(cbs[1].before.bids, cbs[1].frame.bids,
                                     DeliveredMarket.precision),
                 asks |-> ApplyPairs(cbs[1].before.asks, cbs[1].frame.asks,
                                     DeliveredMarket.precision)],
                DeliveredLast)

\* C5: in every delivered book, when the symbol's last price is known and
\* nonzero, every ask is priced at or above it and every bid at or below it.
C5_PostMergePrices ==
  (Delivered /\ DeliveredLast # 0) =>
    /\ \A i \in DOMAIN DeliveredBook.asks :
         DeliveredBook.asks[i].price >= DeliveredLast
    /\ \A i \in DOMAIN DeliveredBook.bids :
         DeliveredBook.bids[i].price <= DeliveredLast

\* C5 witness: a book delivered under last price 100 from a message with a
\* bid above and an ask below it, with levels left on both sides.
C5_Witness ==
  /\ Delivered
  /\ DeliveredLast = 100
  /\ \E i \in DOMAIN cbs[1].frame.bids :
       cbs[1].frame.bids[i][1] > 100 /\ cbs[1].frame.bids[i][2] # 0
  /\ \E i \in DOMAIN cbs[1].before.asks : cbs[1].before.asks[i].price < 100
  /\ DeliveredBook.asks # <<>>

\* C6: when the symbol has no ticker or its last price is 0, the delivered
\* book holds every bid and every ask the merge produced.
C6_NoFilterWithoutLast ==
  (Delivered /\ DeliveredLast = 0) =>
    LET merged == Merge([bids |-> cbs[1].before.bids, asks |-> cbs[1].before.asks],
                        cbs[1].frame, DeliveredMarket.precision)
    IN /\ Len(DeliveredBook.bids) = Len(merged.bids)
       /\ Len(DeliveredBook.asks) = Len(merged.asks)
       /\ \A i \in DOMAIN merged.bids :
            \E j \in DOMAIN DeliveredBook.bids :
              /\ DeliveredBook.bids[j].price = merged.bids[i].price
              /\ DeliveredBook.bids[j].amount = merged.bids[i].amount
       /\ \A i \in DOMAIN merged.asks :
            \E j \in DOMAIN DeliveredBook.asks :
              /\ DeliveredBook.asks[j].price = merged.asks[i].price
              /\ DeliveredBook.asks[j].amount = merged.asks[i].amount

\* The entries of a snapshot side that the claim keeps: nonzero amount, and
\* not on the wrong side of the last price.
KeptEntries(entries, lastPrice, isBid) ==
  {i \in DOMAIN entries :
     /\ entries[i][2] # 0
     /\ IF isBid THEN entries[i][1] <= lastPrice ELSE entries[i][1] >= lastPrice}

\* The levels of a side are exactly the kept entries of the snapshot side,
\* each with amount x precision: as many levels as kept entries, and of each
\* (price, amount) as many.
HoldsExactly(levels, entries, precision, lastPrice, isBid) ==
  LET kept == KeptEntries(entries, lastPrice, isBid)
  IN /\ Len(levels) = Cardinality(kept)
     /\ \A k \in kept :
          Cardinality({j \in DOMAIN levels :
                         /\ levels[j].price = entries[k][1]
                         /\ levels[j].amount = entries[k][2] * precision})
          = Cardinality({m \in kept : entries[m] = entries[k]})

\* C7: after a snapshot message each side of the delivered book holds exactly
\* the snapshot's entries with nonzero amount, each with amount x precision,
\* minus those the last-price filter removes; and the scenario
\* bids=[[100,2],[99,1]], asks=[[101,3]], precision 1, gives
\* bids=[(100,2,2),(99,1,3)], asks=[(101,3,3)].
C7_SnapshotReplaces ==
  (Delivered /\ cbs[1].frame.action = "snapshot") =>
    /\ HoldsExactly(DeliveredBook.bids, cbs[1].frame.bids,
                    DeliveredMarket.precision, DeliveredLast, TRUE)
    /\ HoldsExactly(DeliveredBook.asks, cbs[1].frame.asks,
                    DeliveredMarket.precision, DeliveredLast, FALSE)
    /\ (/\ cbs[1].frame.bids = ScenarioSnapshot.bids
        /\ cbs[1].frame.asks = ScenarioSnapshot.asks
        /\ DeliveredMarket.precision = 1
        /\ DeliveredLast = 100)
       => DeliveredBook =
            [bids |-> << [price |-> 100, amount |-> 2, total |-> 2],
                         [price |-> 99, amount |-> 1, total |-> 3] >>,
             asks |-> << [price |-> 101, amount |-> 3, total |-> 3] >>]

\* C7 witness: a snapshot delivered to a closure whose book held levels, on
\* both sides, that the snapshot does not name.
C7_Witness ==
  /\ Delivered
  /\ cbs[1].frame.action = "snapshot"
  /\ DeliveredLast = 100
  /\ DeliveredBook.bids # <<>>
  /\ \E i \in DOMAIN cbs[1].before.bids :
       \A j \in DOMAIN cbs[1].frame.bids :
         cbs[1].frame.bids[j][1] # cbs[1].before.bids[i].price
  /\ \E i \in DOMAIN cbs[1].before.asks :
       \A j \in DOMAIN cbs[1].frame.asks :
         cbs[1].frame.asks[j][1] # cbs[1].before.asks[i].price

\* Every pair of the update is already a level of the book, with the same
\* normalized amount.
AllPresent(book, frame, precision) ==
  /\ \A i \in DOMAIN frame.bids :
       \E j \in DOMAIN book.bids :
         /\ book.bids[j].price = frame.bids[i][1]
         /\ book.bids[j].amount = frame.bids[i][2] * precision
  /\ \A i \in DOMAIN frame.asks :
       \E j \in DOMAIN book.asks :
         /\ book.asks[j].price = frame.asks[i][1]
         /\ book.asks[j].amount = frame.asks[i][2] * precision

\* The last step delivered an update all of whose pairs the book already held,
\* under the last price the book was last delivered under.
RepeatedUpdate ==
  /\ Delivered
  /\ cbs[1].frame.action = "update"
  /\ cbs[1].before.at = DeliveredLast
  /\ AllPresent(cbs[1].before, cbs[1].frame, DeliveredMarket.precision)

\* C8: with the last price unchanged, an update whose pairs are all present
\* in the book with the same normalized amount leaves the delivered book as
\* it was: same levels, amounts and totals (so a second application of it
\* changes nothing either).
C8_UpdateIdempotent ==
  RepeatedUpdate =>
    DeliveredBook = [bids |-> cbs[1].before.bids, asks |-> cbs[1].before.asks]

\* C8 witness: such an update with a pair on each side, on a book with levels
\* on both sides.
C8_Witness ==
  /\ RepeatedUpdate
  /\ cbs[1].frame.bids # <<>>
  /\ cbs[1].frame.asks # <<>>
  /\ DeliveredLast = 100

\* Call r asked an order book for a market of the store, its teardown has not
\* been invoked, and its subscribe frame has been sent.
LiveBook(r) ==
  /\ req[r].kind = "orderBook"
  /\ FindMarket(TRUE, req[r].symbol) # 0
  /\ r \notin torn
  /\ \E g \in {"h", "c"} : clo[r][g].mode = "full" /\ ~clo[r][g].timer

\* C11: when order books of two different symbols have been subscribed on the
\* session, a book message for an instrument is delivered to the callback of
\* that instrument's call only, and merged into that call's book only.
C11_BookIsolation ==
  (/\ Delivered
   /\ \E r1, r2 \in Calls :
        LiveBook(r1) /\ LiveBook(r2) /\ req[r1].symbol # req[r2].symbol)
  => DeliveredMarket.id = cbs[1].frame.instId

RECURSIVE SumAmounts(_, _)
\* The sum of the amounts of the first n levels.
SumAmounts(levels, n) ==
  IF n = 0 THEN 0 ELSE SumAmounts(levels, n - 1) + levels[n].amount

\* C13: in every delivered book the bids are in descending and the asks in
\* ascending price order, and each level's total is the sum of the amounts
\* from the best price up to and including that level.
C13_OrderAndTotals ==
  Delivered =>
    /\ \A i, j \in DOMAIN DeliveredBook.bids :
         i < j => DeliveredBook.bids[i].price >= DeliveredBook.bids[j].price
    /\ \A i, j \in DOMAIN DeliveredBook.asks :
         i < j => DeliveredBook.asks[i].price <= DeliveredBook.asks[j].price
    /\ \A i \in DOMAIN DeliveredBook.bids :
         DeliveredBook.bids[i].total = SumAmounts(DeliveredBook.bids, i)
    /\ \A i \in DOMAIN DeliveredBook.asks :
         DeliveredBook.asks[i].total = SumAmounts(DeliveredBook.asks, i)
    /\ \A i, j \in DOMAIN DeliveredBook.asks :
         i < j => DeliveredBook.asks[i].total <= DeliveredBook.asks[j].total

\* C13 witness: a book of two ask levels on which an update inserted the
\* level of the better price, behind the level an earlier message had created.
C13_Witness ==
  /\ Delivered
  /\ cbs[1].frame.action = "update"
  /\ Len(DeliveredBook.asks) = 2
  /\ Len(cbs[1].before.asks) = 1
  /\ cbs[1].before.asks[1].price > DeliveredBook.asks[1].price

\* The topics a step sends in subscribe frames of its own (not the frame of
\* onOpen, which starts a connection).
SubscribedNow(frames) ==
  {t \in UNION {Range(frames[i].args) : i \in DOMAIN frames} :
     \E i \in DOMAIN frames : frames[i].op = "subscribe" /\ t \in Range(frames[i].args)}

\* C17: a listen call for a topic that is already subscribed leaves one
\* ledger entry and one handler (its own) for the key, and sends no second
\* subscribe frame for the topic on the connection: on an Open session every
\* topic of the ledger has been sent on the current connection, by the call
\* that recorded it or by the frame of onOpen.
C17_TopicKeyUniqueness ==
  [][\A r \in Calls, g \in {"h", "c"} :
       LET isListen ==
             \/ RetryWait(r, g) \/ RetryListen(r, g)
             \/ /\ g = "h" /\ req[r].kind = "none" /\ req'[r].kind # "none"
       IN (isListen /\ isConnected /\ ~isDisposed /\ out' # <<>>) =>
            /\ Cardinality({i \in DOMAIN topics' :
                              topics'[i].key = LedgerKey(req'[r])}) = 1
            /\ Get(messageHandlers', HandlerKey(req'[r])).r = r
            /\ SubscribedNow(out') \cap Range(Flatten(topics)) = {}]_vars

\* Call q holds the handler of its key and the ledger entry of its topic.
Registered(q) ==
  /\ req[q].kind # "none"
  /\ FindMarket(TRUE, req[q].symbol) # 0
  /\ HasKey(messageHandlers, HandlerKey(req[q]))
  /\ Get(messageHandlers, HandlerKey(req[q])).r = q
  /\ HasKey(topics, LedgerKey(req[q]))
  /\ Get(topics, LedgerKey(req[q])) = << TopicOf(req[q]) >>

\* C18: the teardown of one call leaves the handler, the ledger entry and the
\* book of every other registered call as they were, and sends an unsubscribe
\* frame for its own topic only.
C18_TeardownOwnOnly ==
  [][\A r \in Calls :
       Teardown(r) =>
         /\ \A q \in Calls \ {r} :
              Registered(q) =>
                /\ HasKey(messageHandlers', HandlerKey(req[q]))
                /\ Get(messageHandlers', HandlerKey(req[q])).r = q
                /\ HasKey(topics', LedgerKey(req[q]))
                /\ Get(topics', LedgerKey(req[q])) = << TopicOf(req[q]) >>
                /\ clo'[q] = clo[q]
         /\ \A i \in DOMAIN out' :
              out'[i] = UnsubscribeFrame(<< TopicOf(req[r]) >>)]_vars

\* A step that received frame f ran no handler: no callback, no ticker update,
\* no change of a book.
NoHandlerRan == cbs' = <<>> /\ tickers' = tickers /\ clo' = clo

\* C20: a pong frame and a subscription acknowledgment reach no topic handler;
\* a frame that does not parse reaches none either and leaves the handler
\* table as it was; any other frame reaches at most one handler, the first of
\* the table whose key occurs in it.
C20_Dispatch ==
  [][\A f \in SessionFrames :
       Receive(f) =>
         /\ (f.type \in {"pong", "suback", "bad"}) => NoHandlerRan
         /\ messageHandlers' = messageHandlers
         /\ Len(cbs') <= 1
         /\ \A i \in DOMAIN cbs' :
              /\ MatchingHandler(f) # 0
              /\ messageHandlers[MatchingHandler(f)].val.r = cbs'[i].r
              /\ \A j \in 1..(MatchingHandler(f) - 1) :
                   ~Includes(f, messageHandlers[j].key)]_vars

\* C20 witness: after listenOrderBook registered the books handler, a books
\* frame has been delivered to its callback (the same handler the
\* acknowledgment and the unparsable frame for books are kept from).
C20_Witness ==
  /\ Delivered
  /\ HasKey(messageHandlers, "books")
  /\ Get(messageHandlers, "books").r = cbs[1].r
  /\ pingTimeoutId

\* The last step sent a ping.
PingSent == \E i \in DOMAIN out : out[i] = PingFrame

\* The last step handled a pong: it armed the keepalive timer.
PongHandled == armed = {<< 0, "ping" >>}

Requested == gate.last.made

\* C14: a request to a public endpoint leaves the interceptor as it came, with
\* no KEY, SIGN or Timestamp header and no timeout; every other request leaves
\* it with the three headers set and the timeout equal to the configured
\* receive window, or RECV_WINDOW when none is configured.
C14_PublicBypass ==
  Requested =>
    LET r == gate.last.result
    IN IF IsPublic(r.config)
       THEN /\ r.kind = "config"
            /\ r.KEY = NoText /\ r.SIGN = NoText /\ r.Timestamp = Undefined
            /\ r.timeout = Undefined
       ELSE /\ r.kind = "config"
            /\ r.KEY # NoText /\ r.SIGN # NoText /\ r.Timestamp = gate.last.time
            /\ r.timeout = IF gate.options.recvWindow = Undefined THEN RECV_WINDOW
                           ELSE gate.options.recvWindow

\* Two requests have been signed by the client.
TwoSigned ==
  /\ gate.prev.made /\ gate.last.made
  /\ ~IsPublic(gate.prev.result.config) /\ ~IsPublic(gate.last.result.config)
  /\ gate.prev.result.kind = "config" /\ gate.last.result.kind = "config"

\* The number of inputs (method, path, query, body, timestamp) in which the
\* two requests differ; a method not given is GET, and its case does not count.
InputsDiffering ==
  LET a == gate.prev.result.config
      b == gate.last.result.config
  IN Cardinality({ f \in {"method", "url", "params", "data", "time"} :
                     \/ f = "method" /\ SignedMethod(a) # SignedMethod(b)
                     \/ f = "url" /\ a.url # b.url
                     \/ f = "params" /\ a.params # b.params
                     \/ f = "data" /\ a.data # b.data
                     \/ f = "time" /\ gate.prev.time # gate.last.time })

\* C15 as stated: two signed requests with the same inputs carry the same
\* KEY, SIGN and Timestamp; two that differ in exactly one of method, path,
\* query, body or timestamp are signed over different canonical strings and
\* carry different signatures.
C15_InputSensitive ==
  TwoSigned =>
    /\ InputsDiffering = 0 =>
         /\ gate.prev.result.KEY = gate.last.result.KEY
         /\ gate.prev.result.SIGN = gate.last.result.SIGN
         /\ gate.prev.result.Timestamp = gate.last.result.Timestamp
    /\ InputsDiffering = 1 =>
         /\ gate.prev.result.toSign # gate.last.result.toSign
         /\ gate.prev.result.SIGN # gate.last.result.SIGN

\* The inputs as the interceptor reads them: the method in upper case (GET
\* when absent), the path, the decoded query text, the JSON text of the body
\* ('' when absent), the timestamp.
SignedInputs(call) ==
  << SignedMethod(call.result.config), SignedUrl(call.result.config),
     SignedParams(call.result.config), BodyText(call.result.config), call.time >>

\* C15 (amended): two signed requests carry the same signature exactly when
\* their inputs as read by the interceptor are the same; when these differ,
\* the canonical strings differ and so do the signatures.
C15_SensitiveToSignedInputs ==
  TwoSigned =>
    /\ (SignedInputs(gate.prev) = SignedInputs(gate.last)) <=>
         (gate.prev.result.toSign = gate.last.result.toSign)
    /\ (gate.prev.result.toSign = gate.last.result.toSign) <=>
         (gate.prev.result.SIGN = gate.last.result.SIGN)
    /\ InputsDiffering = 0 =>
         /\ gate.prev.result.KEY = gate.last.result.KEY
         /\ gate.prev.result.Timestamp = gate.last.result.Timestamp

\* C15 witness: two signed requests that differ only in their query, one of
\* them with a line break in a value, signed over different strings.
C15_Witness ==
  /\ TwoSigned
  /\ InputsDiffering = 1
  /\ gate.prev.result.config.params # gate.last.result.config.params
  /\ \E i \in DOMAIN gate.last.result.config.params :
       \E j \in DOMAIN gate.last.result.config.params[i].v :
         gate.last.result.config.params[i].v[j] = "\n"
  /\ gate.prev.result.SIGN # gate.last.result.SIGN

\* C16: a client exists only for options that carry a key and a secret.
C16_FailsAtConstruction ==
  gate.client = "created" =>
    gate.options.key # NoText /\ gate.options.secret # NoText

====
